---- MODULE Spec2Model ----
(***************************************************************************)
(* Model of src/helpers/Games.py (crabada.py): the three batch operations  *)
(* closeFinishedGames, sendAvailableTeamsMining and reinforceWhereNeeded,  *)
(* the time predicates they filter with, and the helpers                   *)
(* getNextGameToFinish and gameIsClosed.                                   *)
(*                                                                         *)
(* Time is counted in ticks of 1/TicksPerSecond second, so that the float  *)
(* returned by time() can fall between two whole seconds; a game's         *)
(* end_time is a whole number of seconds, as the game API reports it.      *)
(* Each operation is cut at its external calls: fetch (and filter), then   *)
(* per item: [select,] submit, receipt, classify.                          *)
(***************************************************************************)
EXTENDS Integers, Sequences, FiniteSets, TLC

\* ---------------------------------------------------------------- bounds
MaxMines == 2
MaxTeams == 3
MaxNow == 3
MaxPool == 2
MaxCrabPrice == 2
MaxMp == 2
TicksPerSecond == 2

\* -------------------------------------------------------- program values
\* txReceipt['status'] of a transaction that succeeded
SuccessStatus == 1
ReceiptStatuses == {SuccessStatus - 1, SuccessStatus}

VARIABLES
    now,        \* time(): the clock, in ticks
    mines,      \* remote game state: sequence of Game records, game_id = index
    op,         \* the operation in progress: idle, close, send, reinforce
    pc,         \* its position
    fetched,    \* records returned by the remote query (openGames, availableTeams, openMines)
    filterTime, \* time() as read by gameIsFinished in the filter of the call
    items,      \* ids the loop iterates over (finishedGames, availableTeams, reinforceableMines)
    idx,        \* index in items of the item being processed
    n,          \* nClosedGames, nSentTeams, nBorrowedReinforments
    tx,         \* the transaction submitted last (txHash): kind, target, crab, price
    receipt,    \* txReceipt['status'] of the receipt obtained last
    user,       \* getUserConfig(userAddress): the user's maxPriceToReinforceInTus
    crab,       \* local crabId of reinforceWhereNeeded
    price,      \* local price of reinforceWhereNeeded: bound flag and value
    sel,        \* outcome of the last strategy.getCrab(): kind and candidate
    warned,     \* the price-too-high warning logged last: price and ceiling named
    ret,        \* value returned
    err,        \* exception that ended the call
    submitted,  \* history: targets of the transactions submitted in this call
    nOk,        \* history: receipts with status = 1 obtained in this call
    nKo,        \* history: receipts with another status obtained in this call
    alerts,     \* history: sendSms calls of this call
    nextGame,   \* value returned by getNextGameToFinish
    closed      \* value returned by gameIsClosed

vars == <<now, mines, user, op, pc, fetched, filterTime, items, idx, n, tx, receipt,
          crab, price, sel, warned, ret, err, submitted, nOk, nKo, alerts,
          nextGame, closed>>

reinforceLocals == <<user, crab, price, sel, warned>>
history == <<submitted, nOk, nKo, alerts>>
helperResults == <<nextGame, closed>>

\* ------------------------------------------------------------ data model
Game(id, end, canReinforce) ==
    [game_id |-> id, end_time |-> end, status |-> "open", canReinforce |-> canReinforce]

\* end times, in whole seconds: those the clock reaches and one it does not
EndTimes == 1..((MaxNow \div TicksPerSecond) + 1)

MineLists ==
    UNION { { [i \in 1..k |-> Game(i, f[i][1], f[i][2])] :
                f \in [1..k -> EndTimes \X BOOLEAN] } : k \in 0..MaxMines }

Crab(id, p, mp) == [crabada_id |-> id, price |-> p, mp |-> mp]

Pools ==
    UNION { { [i \in 1..k |-> Crab(i, f[i][1], f[i][2])] :
                f \in [1..k -> (1..MaxCrabPrice) \X (1..MaxMp)] } : k \in 0..MaxPool }

\* None in the place of a Game
NoGame == [game_id |-> 0, end_time |-> 0, status |-> "none", canReinforce |-> FALSE]

NoCrab == Crab(0, 0, 0)
NoTx == [kind |-> "none", target |-> 0, crab |-> 0, price |-> 0]
NoPrice == [bound |-> FALSE, value |-> 0]
NoSel == [kind |-> "unset", crab |-> 0, price |-> 0]
NoWarning == [logged |-> FALSE, price |-> 0, ceiling |-> 0]
NoCeiling == [set |-> FALSE, maxPrice |-> 0]
Ceiling(p) == [set |-> TRUE, maxPrice |-> p]
Configs == {NoCeiling} \cup { Ceiling(p) : p \in 1..(MaxCrabPrice - 1) }

\* ------------------------------------------------------- time predicates
\* Python's int(): truncation toward zero
TruncDiv(a, b) == IF a >= 0 THEN a \div b ELSE -((-a) \div b)

\* getRemainingTime: int(game['end_time'] - time())
getRemainingTime(game, t) ==
    TruncDiv(game.end_time * TicksPerSecond - t, TicksPerSecond)

\* gameIsFinished: getRemainingTime(game) <= 0
gameIsFinished(game, t) == getRemainingTime(game, t) <= 0

\* ------------------------------------------------------------ list helpers
\* firstOrNone(l)
firstOrNone(l) == IF l = <<>> THEN NoGame ELSE l[1]

\* sorted(l, key=lambda g: g['end_time']): Python's sort is stable, so a game
\* goes behind every game already placed whose end_time is not greater
RECURSIVE InsertByEndTime(_, _)
InsertByEndTime(l, g) ==
    IF l = <<>> THEN <<g>>
    ELSE IF l[Len(l)].end_time <= g.end_time THEN Append(l, g)
    ELSE Append(InsertByEndTime(SubSeq(l, 1, Len(l) - 1), g), l[Len(l)])

RECURSIVE SortedByEndTime(_)
SortedByEndTime(l) ==
    IF l = <<>> THEN <<>>
    ELSE InsertByEndTime(SortedByEndTime(SubSeq(l, 1, Len(l) - 1)), l[Len(l)])

Ids(s) == [i \in 1..Len(s) |-> s[i].game_id]

\* a variant that returns the games of every status
OpenGamesUnfiltered(ms) == ms

\* crabadaWeb2Client.listMines({"status": "open"}) / listMyOpenMines
OpenGames(ms) == SelectSeq(ms, LAMBDA g : g.status = "open")

\* a variant that lists the finished games last first
FinishedGamesReversed(gs, t) ==
    LET l == SelectSeq(gs, LAMBDA g : gameIsFinished(g, t))
    IN  [k \in 1..Len(l) |-> l[Len(l) + 1 - k]]

\* [ g for g in openGames if gameIsFinished(g) ]
FinishedGames(gs, t) == SelectSeq(gs, LAMBDA g : gameIsFinished(g, t))

\* crabadaWeb2Client.listTeams(userAddress, {"is_team_available": 1}): the answers
\* the service can give, each the ids of the teams it flags available
Team(id, available) == [team_id |-> id, is_team_available |-> available]

\* a variant that returns the teams of every availability
AvailableTeamsUnfiltered(ts) == [i \in 1..MaxTeams |-> Team(i, ts[i])]

\* the teams flagged available, in the order of the answer
AvailableTeams(ts) ==
    SelectSeq([i \in 1..MaxTeams |-> Team(i, ts[i])], LAMBDA t : t.is_team_available)
TeamLists == { AvailableTeams(ts) : ts \in [1..MaxTeams -> BOOLEAN] }
TeamIds(s) == [i \in 1..Len(s) |-> s[i].team_id]

\* minerCanReinforce(m): the game's defence state still accepts a reinforcement
minerCanReinforce(m) == m.canReinforce

\* a variant that keeps every open mine, reinforceable or not
ReinforceableMinesUnfiltered(ms) == ms

\* [ m for m in openMines if minerCanReinforce(m) ]
ReinforceableMines(ms) == SelectSeq(ms, LAMBDA m : minerCanReinforce(m))

\* --------------------------------------------------- reinforcement strategy
\* entries of the pool within the price ceiling (all of them without a ceiling)
Affordable(pool, c) == SelectSeq(pool, LAMBDA x : ~c.set \/ x.price <= c.maxPrice)

\* the pool ordered descending by capability: its first entry
HighestMp(pool) ==
    pool[CHOOSE i \in 1..Len(pool) :
            /\ \A j \in 1..Len(pool) : pool[j].mp <= pool[i].mp
            /\ \A j \in 1..(i - 1) : pool[j].mp < pool[i].mp]

\* the pool ordered ascending by price: its first entry
Cheapest(pool) ==
    pool[CHOOSE i \in 1..Len(pool) :
            /\ \A j \in 1..Len(pool) : pool[j].price >= pool[i].price
            /\ \A j \in 1..(i - 1) : pool[j].price > pool[i].price]

Selected(kind, c) == [kind |-> kind, crab |-> c.crabada_id, price |-> c.price]

\* HighestMpStrategy(mine, client, strict, maxPrice).getCrab(): a crab, None, or
\* CrabBorrowPriceTooHigh with the candidate it rejected.  A non-strict policy
\* may relax the ceiling and fall back to the cheapest entry (relax).
getCrab(pool, strict, c, relax) ==
    IF pool = <<>>
    THEN Selected("none", NoCrab)
    ELSE IF Affordable(pool, c) # <<>>
    THEN Selected("crab", HighestMp(Affordable(pool, c)))
    ELSE IF ~strict /\ relax
    THEN Selected("crab", Cheapest(pool))
    ELSE Selected("tooHigh", HighestMp(pool))

\* What strategy.getCrab() can answer under configuration c, over every pool the
\* lending market can hold and both fallback behaviours of the policy.
StrategyOutcomes ==
    [c \in Configs |->
        { getCrab(pool, FALSE, c, relax) : pool \in Pools, relax \in BOOLEAN }]

\* ------------------------------------------------------------------ Init
Init ==
    /\ now = 0
    /\ mines \in MineLists
    /\ user = NoCeiling
    /\ op = "idle"
    /\ pc = "idle"
    /\ fetched = <<>>
    /\ filterTime = 0
    /\ items = <<>>
    /\ idx = 0
    /\ n = 0
    /\ tx = NoTx
    /\ receipt = 0
    /\ crab = 0
    /\ price = NoPrice
    /\ sel = NoSel
    /\ warned = NoWarning
    /\ ret = 0
    /\ err = "none"
    /\ submitted = <<>>
    /\ nOk = 0
    /\ nKo = 0
    /\ alerts = 0
    /\ nextGame = NoGame
    /\ closed = FALSE

\* ------------------------------------------------------- shared loop steps
\* An exception leaves the function: nothing below the raising line runs.
Raise(e) ==
    /\ pc' = "aborted"
    /\ err' = e

\* a variant that goes through the same item again
NextItemRepeats(count, first) ==
    /\ idx' = idx
    /\ pc' = first
    /\ ret' = ret

\* End of one iteration of a for loop: next item, or the return after the loop.
NextItem(count, first) ==
    IF idx < Len(items)
    THEN /\ idx' = idx + 1
         /\ pc' = first
         /\ ret' = ret
    ELSE /\ idx' = idx
         /\ pc' = "returned"
         /\ ret' = count

\* txReceipt = crabadaWeb3Client.getTransactionReceipt(txHash): the status it carries
GetReceipt(s) ==
    /\ receipt' = s
    /\ nOk' = IF s = SuccessStatus THEN nOk + 1 ELSE nOk
    /\ nKo' = IF s = SuccessStatus THEN nKo ELSE nKo + 1
    /\ pc' = "classify"
    /\ err' = err

\* a variant that counts every receipt as a success
ClassifyCountsEveryReceipt(first) ==
    /\ IF receipt # SuccessStatus
       THEN alerts' = alerts + 1
       ELSE alerts' = alerts
    /\ n' = n + 1
    /\ tx' = NoTx
    /\ receipt' = 0
    /\ NextItem(n', first)

\* a variant that never calls sendSms
ClassifyWithoutAlert(first) ==
    /\ n' = IF receipt # SuccessStatus THEN n ELSE n + 1
    /\ alerts' = alerts
    /\ tx' = NoTx
    /\ receipt' = 0
    /\ NextItem(n', first)

\* if txReceipt['status'] != 1: sendSms(...) else: counter += 1
\* (txHash and txReceipt are assigned again before they are next read: the
\* model forgets them at the end of the iteration)
Classify(first) ==
    /\ IF receipt # SuccessStatus
       THEN /\ alerts' = alerts + 1
            /\ n' = n
       ELSE /\ n' = n + 1
            /\ alerts' = alerts
    /\ tx' = NoTx
    /\ receipt' = 0
    /\ NextItem(n', first)

\* ---------------------------------------------------- closeFinishedGames
CloseFetch ==
    /\ op = "idle"
    /\ op' = "close"
    /\ UNCHANGED <<helperResults, now, mines, reinforceLocals, tx, receipt, history, n>>
    /\ \/ /\ Raise("FetchError")
          /\ UNCHANGED <<fetched, filterTime, items, idx, ret>>
       \/ /\ fetched' = OpenGames(mines)
          /\ filterTime' = now
          /\ items' = Ids(FinishedGames(OpenGames(mines), now))
          /\ err' = err
          /\ IF items' = <<>>
             THEN /\ pc' = "returned"
                  /\ ret' = 0
                  /\ idx' = idx
             ELSE /\ pc' = "submit"
                  /\ idx' = 1
                  /\ ret' = ret

CloseSubmit ==
    /\ op = "close"
    /\ pc = "submit"
    /\ UNCHANGED <<helperResults, now, mines, op, reinforceLocals, fetched, filterTime, items, idx, n, receipt, ret,
                   nOk, nKo, alerts>>
    /\ \/ /\ Raise("TransactionError")
          /\ UNCHANGED <<tx, submitted>>
       \/ /\ tx' = [kind |-> "closeGame", target |-> items[idx], crab |-> 0, price |-> 0]
          /\ submitted' = Append(submitted, items[idx])
          /\ pc' = "receipt"
          /\ err' = err

CloseReceipt ==
    /\ op = "close"
    /\ pc = "receipt"
    /\ UNCHANGED <<helperResults, now, op, reinforceLocals, fetched, filterTime, items, idx, n, tx, ret,
                   submitted, alerts>>
    /\ \/ /\ Raise("TransactionError")
          /\ UNCHANGED <<receipt, nOk, nKo, mines>>
       \/ \E s \in ReceiptStatuses :
            /\ GetReceipt(s)
            /\ mines' = IF s = SuccessStatus
                        THEN [mines EXCEPT ![tx.target].status = "close"]
                        ELSE mines

CloseClassify ==
    /\ op = "close"
    /\ pc = "classify"
    /\ Classify("submit")
    /\ UNCHANGED <<helperResults, now, mines, op, reinforceLocals, fetched, filterTime, items, err,
                   submitted, nOk, nKo>>

\* ----------------------------------------------- sendAvailableTeamsMining
SendFetch ==
    /\ op = "idle"
    /\ op' = "send"
    /\ UNCHANGED <<helperResults, now, mines, reinforceLocals, tx, receipt, history, n>>
    /\ \/ /\ Raise("FetchError")
          /\ UNCHANGED <<fetched, filterTime, items, idx, ret>>
       \/ \E availableTeams \in TeamLists :
            /\ fetched' = availableTeams
            /\ filterTime' = filterTime
            /\ items' = TeamIds(availableTeams)
            /\ err' = err
            /\ IF availableTeams = <<>>
               THEN /\ pc' = "returned"
                    /\ ret' = 0
                    /\ idx' = idx
               ELSE /\ pc' = "submit"
                    /\ idx' = 1
                    /\ ret' = ret

SendSubmit ==
    /\ op = "send"
    /\ pc = "submit"
    /\ UNCHANGED <<helperResults, now, mines, op, reinforceLocals, fetched, filterTime, items, idx, n, receipt, ret,
                   nOk, nKo, alerts>>
    /\ \/ /\ Raise("TransactionError")
          /\ UNCHANGED <<tx, submitted>>
       \/ /\ tx' = [kind |-> "startGame", target |-> items[idx], crab |-> 0, price |-> 0]
          /\ submitted' = Append(submitted, items[idx])
          /\ pc' = "receipt"
          /\ err' = err

SendReceipt ==
    /\ op = "send"
    /\ pc = "receipt"
    /\ UNCHANGED <<helperResults, now, mines, op, reinforceLocals, fetched, filterTime, items, idx, n, tx, ret,
                   submitted, alerts>>
    /\ \/ /\ Raise("TransactionError")
          /\ UNCHANGED <<receipt, nOk, nKo>>
       \/ \E s \in ReceiptStatuses : GetReceipt(s)

SendClassify ==
    /\ op = "send"
    /\ pc = "classify"
    /\ Classify("submit")
    /\ UNCHANGED <<helperResults, now, mines, op, reinforceLocals, fetched, filterTime, items, err,
                   submitted, nOk, nKo>>

\* --------------------------------------------------- reinforceWhereNeeded
ReinforceFetch ==
    /\ op = "idle"
    /\ op' = "reinforce"
    /\ user' \in Configs
    /\ UNCHANGED <<helperResults, now, mines, crab, price, sel, warned, tx, receipt, history, n>>
    /\ \/ /\ Raise("FetchError")
          /\ UNCHANGED <<fetched, filterTime, items, idx, ret>>
       \/ /\ fetched' = OpenGames(mines)
          /\ filterTime' = filterTime
          /\ items' = Ids(ReinforceableMines(OpenGames(mines)))
          /\ err' = err
          /\ IF items' = <<>>
             THEN /\ pc' = "returned"
                  /\ ret' = 0
                  /\ idx' = idx
             ELSE /\ pc' = "select"
                  /\ idx' = 1
                  /\ ret' = ret

\* except CrabBorrowPriceTooHigh:
\*     logger.warning(f"Price of crab is {price} ... user limit of {user[...]}")
\*     continue
PriceTooHigh ==
    IF ~price.bound
    THEN /\ Raise("UnboundLocalError")
         /\ UNCHANGED <<warned, idx, ret>>
    ELSE IF ~user.set
    THEN /\ Raise("KeyError")
         /\ UNCHANGED <<warned, idx, ret>>
    ELSE /\ warned' = [logged |-> TRUE, price |-> price.value, ceiling |-> user.maxPrice]
         /\ NextItem(n, "select")
         /\ err' = err

\* a variant that returns the count at the first instance without a candidate
NoCandidateEndsBatch ==
    /\ pc' = "returned"
    /\ ret' = n
    /\ idx' = idx
    /\ warned' = NoWarning
    /\ UNCHANGED <<crab, price, err>>

\* if not reinforcementCrab:
\*     logger.warning(f"Could not find a crab to lend for mine {mineId}")
\*     continue
NoCandidate ==
    /\ NextItem(n, "select")
    /\ warned' = NoWarning
    /\ UNCHANGED <<crab, price, err>>

\* a variant that keeps the price an earlier iteration assigned
CandidateFoundKeepsPrice(r) ==
    /\ crab' = r.crab
    /\ price' = IF price.bound THEN price ELSE [bound |-> TRUE, value |-> r.price]
    /\ pc' = "submit"
    /\ warned' = NoWarning
    /\ UNCHANGED <<err, idx, ret>>

\* crabId = reinforcementCrab['crabada_id']; price = reinforcementCrab['price']
CandidateFound(r) ==
    /\ crab' = r.crab
    /\ price' = [bound |-> TRUE, value |-> r.price]
    /\ pc' = "submit"
    /\ warned' = NoWarning
    /\ UNCHANGED <<err, idx, ret>>

\* mineId = ...; maxPrice = ...; strategy = HighestMpStrategy(..., strict=False, ...);
\* reinforcementCrab = strategy.getCrab() and the three ways it ends
ReinforceSelect ==
    /\ op = "reinforce"
    /\ pc = "select"
    /\ UNCHANGED <<helperResults, now, mines, op, user, fetched, filterTime, items, n, tx, receipt, history>>
    /\ \/ /\ Raise("QueryError")
          /\ sel' = Selected("error", NoCrab)
          /\ UNCHANGED <<crab, price, warned, idx, ret>>
       \/ \E r \in StrategyOutcomes[user] :
            /\ sel' = r
            /\ \/ /\ r.kind = "tooHigh"
                  /\ PriceTooHigh
                  /\ UNCHANGED <<crab, price>>
               \/ /\ r.kind = "none"
                  /\ NoCandidate
               \/ /\ r.kind = "crab"
                  /\ CandidateFound(r)

ReinforceSubmit ==
    /\ op = "reinforce"
    /\ pc = "submit"
    /\ UNCHANGED <<helperResults, now, mines, op, reinforceLocals, fetched, filterTime, items, idx, n, receipt, ret,
                   nOk, nKo, alerts>>
    /\ \/ /\ Raise("TransactionError")
          /\ UNCHANGED <<tx, submitted>>
       \/ /\ tx' = [kind |-> "reinforceDefense", target |-> items[idx],
                     crab |-> crab, price |-> price.value]
          /\ submitted' = Append(submitted, items[idx])
          /\ pc' = "receipt"
          /\ err' = err

ReinforceReceipt ==
    /\ op = "reinforce"
    /\ pc = "receipt"
    /\ UNCHANGED <<helperResults, now, op, reinforceLocals, fetched, filterTime, items, idx, n, tx, ret,
                   submitted, alerts>>
    /\ \/ /\ Raise("TransactionError")
          /\ UNCHANGED <<receipt, nOk, nKo, mines>>
       \/ \E s \in ReceiptStatuses :
            /\ GetReceipt(s)
            /\ mines' = IF s = SuccessStatus
                        THEN [mines EXCEPT ![tx.target].canReinforce = FALSE]
                        ELSE mines

\* (crabId and reinforcementCrab are assigned again before they are next read;
\* price is not: the except branch reads it)
ReinforceClassify ==
    /\ op = "reinforce"
    /\ pc = "classify"
    /\ Classify("select")
    /\ crab' = 0
    /\ sel' = NoSel
    /\ UNCHANGED <<helperResults, now, mines, op, user, price, warned, fetched, filterTime, items, err,
                   submitted, nOk, nKo>>

\* ------------------------------------------------------ getNextGameToFinish
\* unfinishedGames = [ g for g in games if not gameIsFinished(g) ]
UnfinishedGames(games, t) == SelectSeq(games, LAMBDA g : ~gameIsFinished(g, t))

getNextGameToFinish(games, t) == firstOrNone(SortedByEndTime(UnfinishedGames(games, t)))

\* a call of getNextGameToFinish on the games the remote service holds
NextGameToFinish ==
    /\ op = "idle"
    /\ op' = "nextToFinish"
    /\ pc' = "returned"
    /\ fetched' = mines
    /\ filterTime' = now
    /\ nextGame' = getNextGameToFinish(mines, now)
    /\ UNCHANGED <<now, mines, items, idx, n, tx, receipt, reinforceLocals, ret, err,
                   history, closed>>

\* ------------------------------------------------------------ gameIsClosed
\* a variant that answers from the record the read-through returned
gameIsClosedFromRemote(game, remote) == remote.status = "close"

\* crabadaWeb2Client.getMine(game['game_id']); return game['status'] == 'close'
\* (remote is the answer of getMine: the code drops it)
gameIsClosed(game, remote) == game.status = "close"

\* the records a caller can hold of the remote games: as the service has them
\* now, or as it had them while they were open
Snapshots ==
    { mines[i] : i \in 1..Len(mines) }
        \cup { [mines[i] EXCEPT !.status = "open"] : i \in 1..Len(mines) }

\* a call of gameIsClosed, up to its read-through
GameIsClosedCall ==
    /\ op = "idle"
    /\ op' = "isClosed"
    /\ pc' = "query"
    /\ \E game \in Snapshots : fetched' = <<game>>
    /\ UNCHANGED <<helperResults, now, mines, filterTime, items, idx, n, tx, receipt,
                   reinforceLocals, ret, err, history>>

\* the read-through answers or fails; the answer of gameIsClosed
GameIsClosedReturn ==
    /\ op = "isClosed"
    /\ pc = "query"
    /\ UNCHANGED <<nextGame, now, mines, op, fetched, filterTime, items, idx, n, tx, receipt,
                   reinforceLocals, ret, history>>
    /\ \/ /\ Raise("QueryError")
          /\ closed' = closed
       \/ /\ closed' = gameIsClosed(fetched[1], mines[fetched[1].game_id])
          /\ pc' = "returned"
          /\ err' = err

\* ------------------------------------------------------------ environment
\* the in-game defence state of an open mine changes (an attack, or a
\* reinforcement made elsewhere): the remote service owns it
DefenseChange ==
    /\ \E i \in 1..Len(mines) :
          /\ mines[i].status = "open"
          /\ mines' = [mines EXCEPT ![i].canReinforce = ~@]
    /\ UNCHANGED <<helperResults, now, op, pc, fetched, filterTime, items, idx, n, tx, receipt,
                   reinforceLocals, ret, err, history>>

\* time() advances while the program runs or waits
Tick ==
    /\ now < MaxNow
    /\ now' = now + 1
    /\ UNCHANGED <<helperResults, mines, op, pc, fetched, filterTime, items, idx, n, tx, receipt,
                   reinforceLocals, ret, err, history>>

\* The caller takes the result (or the exception); the next call starts afresh.
Finish ==
    /\ pc \in {"returned", "aborted"}
    /\ op' = "idle"
    /\ pc' = "idle"
    /\ fetched' = <<>>
    /\ filterTime' = 0
    /\ items' = <<>>
    /\ idx' = 0
    /\ n' = 0
    /\ tx' = NoTx
    /\ receipt' = 0
    /\ user' = NoCeiling
    /\ crab' = 0
    /\ price' = NoPrice
    /\ sel' = NoSel
    /\ warned' = NoWarning
    /\ ret' = 0
    /\ err' = "none"
    /\ submitted' = <<>>
    /\ nOk' = 0
    /\ nKo' = 0
    /\ alerts' = 0
    /\ nextGame' = NoGame
    /\ closed' = FALSE
    /\ UNCHANGED <<now, mines>>

Next ==
    \/ CloseFetch
    \/ CloseSubmit
    \/ CloseReceipt
    \/ CloseClassify
    \/ SendFetch
    \/ SendSubmit
    \/ SendReceipt
    \/ SendClassify
    \/ ReinforceFetch
    \/ ReinforceSelect
    \/ ReinforceSubmit
    \/ ReinforceReceipt
    \/ ReinforceClassify
    \/ NextGameToFinish
    \/ GameIsClosedCall
    \/ GameIsClosedReturn
    \/ DefenseChange
    \/ Tick
    \/ Finish

Spec == Init /\ [][Next]_vars

\* The steps of a call of one of the three operations once it has fetched its
\* list.  The code is sequential and single-threaded: the next statement of a
\* call runs as soon as the external call before it has come back.
OperationStep ==
    \/ CloseSubmit
    \/ CloseReceipt
    \/ CloseClassify
    \/ SendSubmit
    \/ SendReceipt
    \/ SendClassify
    \/ ReinforceSelect
    \/ ReinforceSubmit
    \/ ReinforceReceipt
    \/ ReinforceClassify

\* The three operations under the clock.  No loop reads the remote state after
\* its fetch, and Init draws the defence state of every mine freely, so the
\* changes of the remote defence state add no list and no step to a call.
OperationsNext ==
    \/ CloseFetch
    \/ SendFetch
    \/ ReinforceFetch
    \/ OperationStep
    \/ Tick
    \/ Finish

FairSpec == Init /\ [][OperationsNext]_vars /\ WF_vars(OperationStep)

\* ======================================================================
\* Properties
\* ======================================================================
InSeq(x, s) == \E k \in 1..Len(s) : s[k] = x
Ended == pc \in {"returned", "aborted"}
InTicks(seconds) == seconds * TicksPerSecond

\* a step of the program that runs the strategy for the current item
SelectStep == op = "reinforce" /\ pc = "select" /\ (pc' # pc \/ idx' # idx)

\* C1: in reinforceWhereNeeded, when the selection for an eligible instance
\* (the first one included) fails with price-too-high, the instance is skipped:
\* no transaction is submitted, the counter and the alerts do not change, and
\* the loop goes on to the next instance or returns the count.
C1_PriceTooHighSkipsInstance ==
    [][ (SelectStep /\ sel'.kind = "tooHigh") =>
            /\ submitted' = submitted
            /\ tx' = tx
            /\ n' = n
            /\ alerts' = alerts
            /\ IF idx < Len(items)
               THEN pc' = "select" /\ idx' = idx + 1
               ELSE pc' = "returned" /\ ret' = n ]_vars

\* C2: once the fetch has returned, each of the three operations ends by
\* returning its count: a failed fetch is the only thing that aborts a call.
C2_OnlyFetchFailureAborts ==
    pc = "aborted" => err = "FetchError"

\* C3: the success counter equals the number of success receipts whose outcome
\* has been handled, a non-success receipt never increments it, and the value
\* returned is the number of success receipts of the batch.
C3_CounterCountsSuccessReceipts ==
    /\ n + (IF pc = "classify" /\ receipt = SuccessStatus THEN 1 ELSE 0) = nOk
    /\ pc = "returned" => ret = nOk

C3_Witness ==
    /\ pc = "returned"
    /\ nOk = 2
    /\ nKo = 1
    /\ ret = 2

\* the loop has come to the item with this id
Attempted(id) == \E j \in 1..idx : items[j] = id

\* C4: a failing attempt on one item does not stop the batch: when a call of
\* closeFinishedGames has ended, every instance of the fetched list that was
\* past its end time has had its close attempt, whatever the outcome of the
\* earlier attempts; when a call of reinforceWhereNeeded that submitted a
\* transaction has ended, its last instance has had its attempt and the count
\* returned is the number of successful transactions.
C4_FailingAttemptDoesNotStopBatch ==
    (Ended /\ err # "FetchError") =>
        /\ op = "close" =>
              \A k \in 1..Len(fetched) :
                  InTicks(fetched[k].end_time) <= filterTime => Attempted(fetched[k].game_id)
        /\ (op = "reinforce" /\ submitted # <<>>) =>
              /\ idx = Len(items)
              /\ pc = "returned" => ret = nOk

\* a step of the program that handles the outcome of a receipt
ClassifyStep == pc = "classify" /\ pc' # pc

\* C5: an alert is sent once for every non-success receipt and never for a
\* success receipt, the number of alerts of a returned call is the number of
\* its non-success receipts, and the loop continues after an alert.
C5_OneAlertPerFailedReceipt ==
    /\ [](/\ alerts + (IF pc = "classify" /\ receipt # SuccessStatus THEN 1 ELSE 0) = nKo
          /\ pc = "returned" => alerts = nKo)
    /\ [][ ClassifyStep =>
             /\ alerts' = alerts + (IF receipt # SuccessStatus THEN 1 ELSE 0)
             /\ IF idx < Len(items)
                THEN idx' = idx + 1 /\ pc' \in {"submit", "select"}
                ELSE pc' = "returned" ]_vars

C5_Witness ==
    /\ pc \in {"submit", "select"}
    /\ idx = 3
    /\ alerts = 2
    /\ nKo = 2
    /\ nOk = 0

\* C6: with a maximum price configured, every reinforcement transaction carries
\* a price within that ceiling.
C6_PriceWithinCeiling ==
    (tx.kind = "reinforceDefense" /\ user.set) => tx.price <= user.maxPrice

\* C7: every instance passed to closeGame was returned by the open-instances
\* query of this call and is past its end time when the close is submitted.
C7_ClosesOnlyFinishedGames ==
    tx.kind = "closeGame" =>
        /\ \E k \in 1..Len(fetched) : fetched[k].game_id = tx.target
        /\ InTicks(mines[tx.target].end_time) <= now

\* a step of the program that submits a transaction
SubmitStep == pc = "submit" /\ pc' = "receipt"

C9_NothingFinishedNothingClosed ==
    (op = "close" /\ err # "FetchError"
        /\ \A k \in 1..Len(fetched) : InTicks(fetched[k].end_time) > filterTime) =>
        /\ pc = "returned"
        /\ ret = 0
        /\ submitted = <<>>
        /\ tx = NoTx
        /\ alerts = 0

\* C10: gameIsFinished is true exactly for the instances with end_time <= now,
\* whatever the fraction of a second the clock shows.
C10_FinishedIffPastEndTime ==
    \A i \in 1..Len(mines) :
        gameIsFinished(mines[i], now) <=> InTicks(mines[i].end_time) <= now

\* first position of the list whose game is not past its end time at time t and
\* has the least end time of those games, 0 when there is none
EarliestUnfinished(games, t) ==
    LET U == { k \in 1..Len(games) : InTicks(games[k].end_time) > t }
    IN  IF U = {} THEN 0
        ELSE CHOOSE k \in U :
                /\ \A j \in U : games[k].end_time <= games[j].end_time
                /\ \A j \in U : j < k => games[k].end_time < games[j].end_time

\* C11: getNextGameToFinish returns none when the list is empty or every
\* instance is past its end time; otherwise it returns the instance not past
\* its end time with the least end time, the first listed of those that share it.
C11_NextToFinishIsEarliestUnfinished ==
    (op = "nextToFinish" /\ pc = "returned") =>
        LET k == EarliestUnfinished(fetched, filterTime)
        IN  IF k = 0 THEN nextGame = NoGame ELSE nextGame = fetched[k]

\* ids of the records the remote query of the call listed, in its order
FetchedIds ==
    [k \in 1..Len(fetched) |-> IF op = "send" THEN fetched[k].team_id ELSE fetched[k].game_id]

\* position of an id in the list the remote query returned
Listed(id) == CHOOSE k \in 1..Len(fetched) : FetchedIds[k] = id

InBatch == op \in {"close", "send", "reinforce"}

\* C12: within one batch of any of the three operations the transactions are
\* submitted in the order the remote query listed the items, at most one
\* transaction is without its receipt at any time, and a transaction is
\* submitted only when the receipt of every earlier one has been obtained.
C12_SubmittedInListedOrderOneAtATime ==
    /\ [](InBatch =>
            /\ \A a \in 1..Len(submitted) : InSeq(submitted[a], FetchedIds)
            /\ \A a, b \in 1..Len(submitted) :
                  a < b => Listed(submitted[a]) < Listed(submitted[b])
            /\ Len(submitted) - (nOk + nKo) = (IF tx = NoTx \/ pc = "classify" THEN 0 ELSE 1))
    /\ [][ SubmitStep =>
             /\ nOk + nKo = Len(submitted)
             /\ tx = NoTx
             /\ submitted' = Append(submitted, items[idx]) ]_vars

C12_Witness ==
    /\ op = "send"
    /\ pc = "receipt"
    /\ submitted = <<1, 2, 3>>
    /\ nOk + nKo = 2

\* the step of closeFinishedGames that fetches and filters
CloseFetchStep == op = "idle" /\ op' = "close" /\ pc' # "aborted"

\* C13: an instance the query service reports as closed is never selected by a
\* later closeFinishedGames call: no instance closed at the time of the fetch
\* is in the list the call iterates, and every close transaction of the call is
\* for an instance of that list.
C13_ClosedNeverSelectedAgain ==
    /\ [][ CloseFetchStep =>
             \A k \in 1..Len(items') : mines[items'[k]].status # "close" ]_vars
    /\ [](op = "close" =>
            /\ \A a \in 1..Len(submitted) : InSeq(submitted[a], items)
            /\ tx.kind = "closeGame" => InSeq(tx.target, items))

\* a later call closes the second game while the first, past its end time too,
\* was closed by an earlier call
C13_Witness ==
    /\ op = "close"
    /\ tx.kind = "closeGame"
    /\ tx.target = 2
    /\ nOk = 0
    /\ submitted = <<2>>
    /\ mines[1].status = "close"
    /\ InTicks(mines[1].end_time) <= filterTime

C15_NoCandidateSkipsInstance ==
    [][ (SelectStep /\ sel'.kind = "none") =>
            /\ submitted' = submitted
            /\ ~InSeq(items[idx], submitted')
            /\ tx' = NoTx
            /\ n' = n
            /\ alerts' = alerts
            /\ err' = "none"
            /\ IF idx < Len(items)
               THEN pc' = "select" /\ idx' = idx + 1
               ELSE pc' = "returned" /\ ret' = n ]_vars

\* the first instance had no candidate and the second has its transaction
C15_Witness ==
    /\ op = "reinforce"
    /\ items = <<1, 2>>
    /\ submitted = <<2>>
    /\ tx.kind = "reinforceDefense"
    /\ n = 0
    /\ alerts = 0

\* the step of gameIsClosed that returns its answer
IsClosedStep == op = "isClosed" /\ pc = "query" /\ pc' = "returned"

\* C16: gameIsClosed returns true exactly when the status of the record it was
\* given is the closed status, whatever the record its read-through returns,
\* and it leaves the given record and the remote games as they were.
C16_ClosedIffRecordStatusClosed ==
    /\ [][ IsClosedStep =>
             /\ closed' = (fetched[1].status = "close")
             /\ fetched' = fetched
             /\ mines' = mines ]_vars
    /\ []((op = "isClosed" /\ pc = "returned") =>
            /\ closed = (fetched[1].status = "close")
            /\ fetched[1].status \in {"open", "close"})

\* the answer for a record taken while the game was open, after it was closed
C16_Witness ==
    /\ op = "isClosed"
    /\ pc = "returned"
    /\ ~closed
    /\ fetched[1].status = "open"
    /\ mines[fetched[1].game_id].status = "close"

\* C17: whenever reinforceWhereNeeded logs the price-too-high warning for an
\* instance, the price it names is the price of the candidate rejected for that
\* instance and the ceiling it names is the user's configured maximum.
C17_WarningNamesOffendingPrice ==
    [][ (SelectStep /\ sel'.kind = "tooHigh" /\ warned'.logged) =>
            /\ warned'.price = sel'.price
            /\ warned'.ceiling = user.maxPrice ]_vars

\* C18: every reinforcement transaction carries the identifier of the instance
\* of the iteration that submits it, and the identifier and the price of the
\* candidate the strategy selected for that instance in that iteration.
C18_TransactionCarriesIterationValues ==
    /\ [][ (SubmitStep /\ op = "reinforce") =>
             /\ sel.kind = "crab"
             /\ tx' = [kind |-> "reinforceDefense", target |-> items[idx],
                       crab |-> sel.crab, price |-> sel.price] ]_vars
    /\ [](tx.kind = "reinforceDefense" =>
            /\ tx.target = items[idx]
            /\ sel.kind = "crab"
            /\ tx.crab = sel.crab
            /\ tx.price = sel.price)

\* the transaction of the second instance of a batch, for the second crab of
\* the pool at its price, after an iteration that submitted one too
C18_Witness ==
    /\ op = "reinforce"
    /\ pc = "receipt"
    /\ idx = 2
    /\ submitted = <<1, 2>>
    /\ sel = [kind |-> "crab", crab |-> 2, price |-> 2]
    /\ tx = [kind |-> "reinforceDefense", target |-> 2, crab |-> 2, price |-> 2]

\* an external call of the current call raised instead of returning: a query or
\* transaction service error, or CrabBorrowPriceTooHigh out of the selection
ExternalCallRaised ==
    \/ err \in {"FetchError", "TransactionError", "QueryError"}
    \/ sel.kind \in {"tooHigh", "error"}

\* C19: each of the three operations submits at most one transaction per item of
\* the fetched list and never two for one item, the count it returns lies
\* between 0 and the number of transactions submitted, and, provided every
\* external call returns, a call that has fetched its list eventually returns.
C19_ReturnsWithAtMostOneTransactionPerItem ==
    /\ [](InBatch =>
            /\ Len(submitted) <= Len(fetched)
            /\ \A a, b \in 1..Len(submitted) : submitted[a] = submitted[b] => a = b
            /\ \A a \in 1..Len(submitted) : InSeq(submitted[a], FetchedIds)
            /\ pc = "returned" => (0 <= ret /\ ret <= Len(submitted)))
    /\ ([]~ExternalCallRaised) => (InBatch ~> (InBatch /\ pc = "returned"))

\* a call of reinforceWhereNeeded has returned 1 after two transactions
C19_Witness ==
    /\ op = "reinforce"
    /\ pc = "returned"
    /\ Len(fetched) = 2
    /\ Len(submitted) = 2
    /\ ret = 1

====
